---- MODULE Spec2Model ----
(***************************************************************************)
(* Model of BibleSearchEngine (backend/src/search.js): the verse store     *)
(* (searchIndex, a Map in insertion order), the isIndexed flag, the        *)
(* asynchronous buildSearchIndex and the readers search and                *)
(* getSearchSuggestions.                                                   *)
(*                                                                         *)
(* A JavaScript string is a sequence of one-character strings, so that     *)
(* trim, toLowerCase, includes and split are computed, not assumed.        *)
(***************************************************************************)
EXTENDS Integers, Sequences, FiniteSets, TLC

VARIABLES
    fsFail,       \* the paths of the corpus whose file-system calls fail
    items,        \* fs.readdir of the corpus root: its entries as listed
    searchIndex,  \* this.searchIndex: the Map, as its entries in iteration order
    isIndexed,    \* this.isIndexed
    pc,           \* per caller: where its call is suspended (an await) or ended
    call,         \* per caller: the operation called and its arguments
    ret,          \* per caller: the value its promise settled with
    seen          \* per caller: the store its reader loop iterated

vars == <<fsFail, items, searchIndex, isIndexed, pc, call, ret, seen>>

----------------------------------------------------------------------------
(* Strings *)

Min(a, b) == IF a < b THEN a ELSE b
Max(a, b) == IF a > b THEN a ELSE b

\* String.prototype.toLowerCase, one character: the letters it changes
LowerOf ==
    "A" :> "a" @@ "B" :> "b" @@ "C" :> "c" @@ "D" :> "d" @@ "E" :> "e" @@ "F" :> "f" @@
    "G" :> "g" @@ "H" :> "h" @@ "I" :> "i" @@ "J" :> "j" @@ "K" :> "k" @@ "L" :> "l" @@
    "M" :> "m" @@ "N" :> "n" @@ "O" :> "o" @@ "P" :> "p" @@ "Q" :> "q" @@ "R" :> "r" @@
    "S" :> "s" @@ "T" :> "t" @@ "U" :> "u" @@ "V" :> "v" @@ "W" :> "w" @@ "X" :> "x" @@
    "Y" :> "y" @@ "Z" :> "z"

LowerChar(c) == IF c \in DOMAIN LowerOf THEN LowerOf[c] ELSE c

toLowerCase(s) == [i \in 1..Len(s) |-> LowerChar(s[i])]

\* the characters \s and trim() treat as white space
IsSpace(c) == c \in {" "}

RECURSIVE TrimStart(_)
TrimStart(s) ==
    IF s # <<>> /\ IsSpace(Head(s)) THEN TrimStart(Tail(s)) ELSE s

RECURSIVE TrimEnd(_)
TrimEnd(s) ==
    IF s # <<>> /\ IsSpace(s[Len(s)]) THEN TrimEnd(SubSeq(s, 1, Len(s) - 1)) ELSE s

\* String.prototype.trim
trim(s) == TrimEnd(TrimStart(s))

\* s.startsWith(t) at index i (1-based): t occurs in s at i
OccursAt(s, t, i) ==
    /\ i + Len(t) - 1 <= Len(s)
    /\ \A j \in 1..Len(t) : s[i + j - 1] = t[j]

\* String.prototype.includes
includes(s, t) == \E i \in 1..(Len(s) - Len(t) + 1) : OccursAt(s, t, i)

\* the members of a set of numbers, ascending
Ascending(S) ==
    [k \in 1..Cardinality(S) |-> CHOOSE i \in S : Cardinality({j \in S : j < i}) = k - 1]

\* String.prototype.split(/\s+/): the pieces between maximal runs of white
\* space; a run at the start or at the end of s leaves an empty piece there.
splitWords(s) ==
    LET n      == Len(s)
        starts == Ascending({i \in 1..n : ~IsSpace(s[i]) /\ (i = 1 \/ IsSpace(s[i - 1]))})
        ends   == Ascending({i \in 1..n : ~IsSpace(s[i]) /\ (i = n \/ IsSpace(s[i + 1]))})
        words  == [k \in 1..Len(starts) |-> SubSeq(s, starts[k], ends[k])]
    IN  IF n = 0 THEN << <<>> >>
        ELSE (IF IsSpace(s[1]) THEN << <<>> >> ELSE <<>>)
             \o words
             \o (IF IsSpace(s[n]) THEN << <<>> >> ELSE <<>>)

\* Array.prototype.slice(start, end)
slice(a, start, end) ==
    LET n  == Len(a)
        lo == IF start < 0 THEN Max(n + start, 0) ELSE Min(start, n)
        hi == IF end < 0 THEN Max(n + end, 0) ELSE Min(end, n)
    IN  SubSeq(a, lo + 1, hi)

\* Array.prototype.sort(cmp): sorted by cmp and stable (ECMAScript 2019), so
\* the element at input position i lands after exactly the elements that
\* compare before it, and the earlier ones that compare equal to it.
\* c[j, i] is cmp(a[j], a[i]).
sort(a, c) ==
    LET n == Len(a)
        rank(i) == 1 + Cardinality({j \in 1..n :
                        \/ c[j, i] < 0
                        \/ c[j, i] = 0 /\ j < i})
    IN  [p \in 1..n |-> a[CHOOSE i \in 1..n : rank(i) = p]]

----------------------------------------------------------------------------
(* parseVersesFromMarkdown *)

Digits == <<"0", "1", "2", "3", "4", "5", "6", "7", "8", "9">>

IsDigit(c) == \E d \in 1..10 : Digits[d] = c

DigitValue(c) == (CHOOSE d \in 1..10 : Digits[d] = c) - 1

\* parseInt of a run of decimal digits
RECURSIVE parseInt(_)
parseInt(ds) ==
    IF ds = <<>> THEN 0
    ELSE 10 * parseInt(SubSeq(ds, 1, Len(ds) - 1)) + DigitValue(ds[Len(ds)])

\* first index >= i of s that does not satisfy the class, Len(s)+1 if none
SkipDigits(s, i) ==
    LET stop == {j \in i..Len(s) : ~IsDigit(s[j])}
    IN  IF stop = {} THEN Len(s) + 1 ELSE CHOOSE j \in stop : \A k \in stop : j <= k

SkipSpaces(s, i) ==
    LET stop == {j \in i..Len(s) : ~IsSpace(s[j])}
    IN  IF stop = {} THEN Len(s) + 1 ELSE CHOOSE j \in stop : \A k \in stop : j <= k

Stars == <<"*", "*">>

\* mutant: the pattern lacks the \s* before the body
verseMatchKeepsSpaces(line) ==
    LET p0 == IF OccursAt(line, Stars, 1) THEN 3 ELSE 1
        p1 == SkipDigits(line, p0)
        p2 == IF OccursAt(line, Stars, p1) THEN p1 + 2 ELSE p1
    IN  IF /\ p1 > p0
           /\ p2 + 1 <= Len(line)
           /\ (line[p2] = "." \/ IsSpace(line[p2]))
        THEN <<[number |-> SubSeq(line, p0, p1 - 1),
                body   |-> SubSeq(line, p2 + 1, Len(line))]>>
        ELSE <<>>

\* line.match(/^(\*\*)?(\d+)(\*\*)?[.\s]\s*(.+)$/) on a trimmed line: every
\* quantifier has one way to match (a digit, a star and a separator are
\* disjoint classes, and a trimmed line does not end in white space), so the
\* match is the greedy one.  <<>> when the line does not match, else
\* <<[number, body]>>.
verseMatch(line) ==
    LET p0 == IF OccursAt(line, Stars, 1) THEN 3 ELSE 1
        p1 == SkipDigits(line, p0)
        p2 == IF OccursAt(line, Stars, p1) THEN p1 + 2 ELSE p1
        p3 == SkipSpaces(line, p2 + 1)
    IN  IF /\ p1 > p0
           /\ p2 <= Len(line)
           /\ (line[p2] = "." \/ IsSpace(line[p2]))
           /\ p3 <= Len(line)
        THEN <<[number |-> SubSeq(line, p0, p1 - 1),
                body   |-> SubSeq(line, p3, Len(line))]>>
        ELSE <<>>

RECURSIVE ParseLines(_, _, _, _)
ParseLines(lines, i, book, chapter) ==
    IF i > Len(lines) THEN <<>>
    ELSE LET line == trim(lines[i])
             m    == IF line = <<>> \/ line[1] = "#" THEN <<>> ELSE verseMatch(line)
             rest == ParseLines(lines, i + 1, book, chapter)
         IN  IF m = <<>> THEN rest
             ELSE <<[book     |-> book,
                     chapter  |-> chapter,
                     verse    |-> parseInt(m[1].number),
                     text     |-> m[1].body,
                     fullText |-> line]>> \o rest

\* content is the chapter file as its lines (content.split('\n'))
parseVersesFromMarkdown(content, book, chapter) ==
    ParseLines(content, 1, book, chapter)

----------------------------------------------------------------------------
(* getContextVerses, calculateRelevance, highlightText *)

\* allVerses.findIndex(v => v.verse === targetVerse): from 0, -1 when absent
findIndex(allVerses, targetVerse) ==
    LET hits == {i \in 1..Len(allVerses) : allVerses[i].verse = targetVerse}
    IN  IF hits = {} THEN -1 ELSE (CHOOSE i \in hits : \A k \in hits : i <= k) - 1

\* mutant: the window ends one verse early
getContextVersesShort(allVerses, targetVerse, contextSize) ==
    LET targetIndex == findIndex(allVerses, targetVerse)
        start == Max(0, targetIndex - contextSize)
        end   == Min(Len(allVerses), targetIndex + contextSize)
    IN  IF targetIndex = -1 THEN <<>> ELSE slice(allVerses, start, end)

getContextVerses(allVerses, targetVerse, contextSize) ==
    LET targetIndex == findIndex(allVerses, targetVerse)
        start == Max(0, targetIndex - contextSize)
        end   == Min(Len(allVerses), targetIndex + contextSize + 1)
    IN  IF targetIndex = -1 THEN <<>> ELSE slice(allVerses, start, end)

ShortVerseLength == 100

\* mutant: the containment test comes first
WordScorePartialFirst(queryWord, textWord) ==
    IF includes(textWord, queryWord) THEN 25
    ELSE IF textWord = queryWord THEN 50
    ELSE 0

\* the contribution of one (query word, text word) pair
WordScore(queryWord, textWord) ==
    IF textWord = queryWord THEN 50
    ELSE IF includes(textWord, queryWord) THEN 25
    ELSE 0

RECURSIVE SumSeq(_)
SumSeq(a) == IF a = <<>> THEN 0 ELSE Head(a) + SumSeq(Tail(a))

calculateRelevance(text, query) ==
    LET lowerText  == toLowerCase(text)
        lowerQuery == toLowerCase(query)
        queryWords == splitWords(lowerQuery)
        textWords  == splitWords(lowerText)
        phrase     == IF includes(lowerText, lowerQuery) THEN 100 ELSE 0
        words      == SumSeq([q \in 1..Len(queryWords) |->
                          SumSeq([t \in 1..Len(textWords) |->
                              WordScore(queryWords[q], textWords[t])])])
        short      == IF Len(text) < ShortVerseLength THEN 10 ELSE 0
    IN  phrase + words + short

MarkOpen  == <<"<", "m", "a", "r", "k", ">">>
MarkClose == <<"<", "/", "m", "a", "r", "k", ">">>

\* new RegExp(`(${word})`, 'gi') throws a SyntaxError when the word leaves
\* the pattern with an unclosed group
RegExpThrows(word) == \E i \in 1..Len(word) : word[i] = "("

\* the word is the source of the pattern: a period in it matches any
\* character, a letter matches itself in either case (flag i).  The words
\* of the model hold no other character that the pattern syntax reads.
MatchesAt(lower, word, i) ==
    /\ i + Len(word) - 1 <= Len(lower)
    /\ \A j \in 1..Len(word) : word[j] = "." \/ lower[i + j - 1] = word[j]

\* text.replace(regex, '<mark>$1</mark>'): every match, left to right, not
\* overlapping.  From index i on.
RECURSIVE ReplaceFrom(_, _, _)
ReplaceFrom(s, word, i) ==
    LET lower == toLowerCase(s)
        hits  == {j \in i..Len(s) : MatchesAt(lower, word, j)}
        m     == CHOOSE j \in hits : \A k \in hits : j <= k
    IN  IF hits = {} THEN SubSeq(s, i, Len(s))
        ELSE SubSeq(s, i, m - 1)
                 \o MarkOpen \o SubSeq(s, m, m + Len(word) - 1) \o MarkClose
                 \o ReplaceFrom(s, word, m + Len(word))

\* the empty word makes the pattern (), which matches the empty string at
\* every position, the end included
ReplaceEmpty(s) ==
    LET marks == MarkOpen \o MarkClose
        w     == Len(marks) + 1
    IN  [k \in 1..(w * Len(s) + Len(marks)) |->
            IF ((k - 1) % w) < Len(marks) THEN marks[((k - 1) % w) + 1]
            ELSE s[((k - 1) \div w) + 1]]

replaceAll(s, word) ==
    IF word = <<>> THEN ReplaceEmpty(s) ELSE ReplaceFrom(s, word, 1)

RECURSIVE HighlightWords(_, _, _)
HighlightWords(highlightedText, queryWords, k) ==
    IF k > Len(queryWords) THEN highlightedText
    ELSE HighlightWords(replaceAll(highlightedText, queryWords[k]), queryWords, k + 1)

highlightThrows(text, query) ==
    /\ query # <<>>
    /\ \E k \in 1..Len(splitWords(toLowerCase(query))) :
           RegExpThrows(splitWords(toLowerCase(query))[k])

highlightText(text, query) ==
    IF query = <<>> THEN text
    ELSE HighlightWords(text, splitWords(toLowerCase(query)), 1)

----------------------------------------------------------------------------
(* The corpus on disk *)

\* fs.readdir(bibleDataDir), in an order the file system lists it
RootItems == <<"John", "Mark">>

\* the orders in which the file system may list the same entries
RootListings == { <<"John", "Mark">>, <<"Mark", "John">> }

\* fs.readdir(bookPath): the file names, in the order the file system lists them
DirFiles(book) ==
    CASE book = "John" -> << <<"C", "h", "a", "p", "t", "e", "r", "_", "0", "2", ".", "m", "d">>,
                             <<"O", "l", "d", "_", "C", "h", "a", "p", "t", "e", "r", "_", "0", "1", ".", "m", "d">>,
                             <<"C", "h", "a", "p", "t", "e", "r", "_", "0", "1", ".", "m", "d">> >>
      [] book = "Mark" -> << <<"n", "o", "t", "e", "s", ".", "m", "d">>,
                             <<"C", "h", "a", "p", "t", "e", "r", "_", "0", "1", ".", "m", "d">> >>

\* fs.readFile(filePath, 'utf-8'), as lines
FileContent(book, file) ==
    CASE book = "John" /\ file = <<"C", "h", "a", "p", "t", "e", "r", "_", "0", "1", ".", "m", "d">> ->
             << <<"#", " ", "J", "o", "h", "n", " ", "1">>,
                <<>>,
                <<"1", ".", " ", "G", "o", "d", " ", "i", "s", " ", "l", "o", "v", "e">>,
                <<"2", " ", "H", "e", " ", "l", "o", "v", "e", "d", " ", "u", "s">>,
                <<"a", "n", "d", " ", "m", "o", "r", "e">> >>
      [] book = "John" /\ file = <<"C", "h", "a", "p", "t", "e", "r", "_", "0", "2", ".", "m", "d">> ->
             << <<"*", "*", "1", "*", "*", " ", "L", "o", "v", "e", " ", "o", "n", "e", " ", "a", "n", "o", "t", "h", "e", "r">> >>
      [] book = "John" /\ file = <<"O", "l", "d", "_", "C", "h", "a", "p", "t", "e", "r", "_", "0", "1", ".", "m", "d">> ->
             << <<"9", ".", " ", "D", "r", "a", "f", "t">> >>
      [] book = "Mark" /\ file = <<"C", "h", "a", "p", "t", "e", "r", "_", "0", "1", ".", "m", "d">> ->
             << <<"0", ".", " ", "M", "a", "r", "k">>,
                <<"1", ".", " ", "T", "h", "e", " ", "b", "e", "g", "i", "n", "n", "i", "n", "g">>,
                <<"2", ".", " ", "B", "e", "l", "o", "v", "e", "d">>,
                <<"1", ".", " ", "T", "h", "e", " ", "g", "o", "s", "p", "e", "l">> >>
      [] book = "Mark" /\ file = <<"n", "o", "t", "e", "s", ".", "m", "d">> ->
             << <<"1", ".", " ", "N", "o", "t", "e", "s">> >>

RootPath == <<>>
BookPath(book) == <<book>>
FilePath(book, file) == <<book, file>>
\* fs.stat(itemPath) of line 141, as distinct from fs.readdir of the same path
StatPath(item) == <<item, "stat", "stat">>

\* the sets of failing paths a behaviour may start with
FailureCases ==
    { {}, {RootPath}, {FilePath("John", <<"C", "h", "a", "p", "t", "e", "r", "_", "0", "1", ".", "m", "d">>)} }

\* the sets of failing paths of a corpus that changes between builds
BuildFailureCases ==
    FailureCases \cup
    { {BookPath("John")},
      {StatPath("Mark")},
      {FilePath("Mark", <<"C", "h", "a", "p", "t", "e", "r", "_", "0", "1", ".", "m", "d">>)} }

----------------------------------------------------------------------------
(* File names *)

\* the characters of file names, in UTF-16 code unit order
CodeOrder == <<" ", "#", "(", "*", ".", "/", "0", "1", "2", "3", "4", "5", "6", "7", "8", "9", "<", ">", "A", "B", "C", "D", "E", "F", "G", "H", "I", "J", "K", "L", "M", "N", "O", "P", "Q", "R", "S", "T", "U", "V", "W", "X", "Y", "Z", "_", "a", "b", "c", "d", "e", "f", "g", "h", "i", "j", "k", "l", "m", "n", "o", "p", "q", "r", "s", "t", "u", "v", "w", "x", "y", "z">>

CharCode(c) == CHOOSE k \in 1..Len(CodeOrder) : CodeOrder[k] = c

\* the default comparison of Array.prototype.sort on strings
RECURSIVE compareStrings(_, _)
compareStrings(a, b) ==
    IF a = <<>> THEN (IF b = <<>> THEN 0 ELSE -1)
    ELSE IF b = <<>> THEN 1
    ELSE IF CharCode(Head(a)) < CharCode(Head(b)) THEN -1
    ELSE IF CharCode(Head(a)) > CharCode(Head(b)) THEN 1
    ELSE compareStrings(Tail(a), Tail(b))

endsWith(s, t) == Len(t) <= Len(s) /\ OccursAt(s, t, Len(s) - Len(t) + 1)

DotMd == <<".", "m", "d">>
ChapterPrefix == <<"C", "h", "a", "p", "t", "e", "r", "_">>

\* chapterFile.match(/Chapter_(\d+)\.md$/): <<>> when there is no match, else
\* <<digits>>.  The pattern is not anchored at the start of the name.
chapterMatch(chapterFile) ==
    LET n      == Len(chapterFile) - Len(DotMd)
        nondig == {j \in 1..n : ~IsDigit(chapterFile[j])}
        first  == IF nondig = {} THEN 1
                  ELSE 1 + CHOOSE j \in nondig : \A k \in nondig : k <= j
    IN  IF /\ endsWith(chapterFile, DotMd)
           /\ first <= n
           /\ first - Len(ChapterPrefix) >= 1
           /\ OccursAt(chapterFile, ChapterPrefix, first - Len(ChapterPrefix))
        THEN <<SubSeq(chapterFile, first, n)>>
        ELSE <<>>

\* files.filter(file => file.endsWith('.md')).sort()
chapterFiles(book) ==
    LET md == SelectSeq(DirFiles(book), LAMBDA file : endsWith(file, DotMd))
    IN  sort(md, [i, j \in 1..Len(md) |-> compareStrings(md[i], md[j])])

----------------------------------------------------------------------------
(* The verse store *)

\* the Map key `${book}_${chapter}_${verse.verse}`: chapter and verse are
\* decimal numbers, so the string determines the triple
keyOf(v) == <<v.book, v.chapter, v.verse>>

\* mutant: an existing key keeps its value
mapSetKeepsFirst(index, v) ==
    IF \E i \in 1..Len(index) : keyOf(index[i]) = keyOf(v)
    THEN index
    ELSE Append(index, v)

\* Map.prototype.set: a new key is appended to the iteration order, an
\* existing key keeps its place and takes the new value
mapSet(index, v) ==
    IF \E i \in 1..Len(index) : keyOf(index[i]) = keyOf(v)
    THEN [i \in 1..Len(index) |-> IF keyOf(index[i]) = keyOf(v) THEN v ELSE index[i]]
    ELSE Append(index, v)

RECURSIVE mapSetAll(_, _)
mapSetAll(index, verses) ==
    IF verses = <<>> THEN index
    ELSE mapSetAll(mapSet(index, Head(verses)), Tail(verses))

----------------------------------------------------------------------------
(* search, after its lazy build *)

NoValue == <<>>
Ok(value) == [kind |-> "ok", value |-> value]
Threw(error) == [kind |-> "error", value |-> error]

DefaultLimit == 50
DefaultContextSize == 2

\* options as the caller passes them: bookFilter and limit are <<>> when
\* absent (null, and the default 50), else <<value>>
DefaultOptions ==
    [bookFilter |-> <<>>, limit |-> <<>>,
     includeContext |-> TRUE, contextSize |-> DefaultContextSize]

\* `bookFilter && ...`: null and the empty string are falsy
Truthy(bookFilter) == bookFilter # <<>> /\ bookFilter[1] # ""

\* mutant: the limit of the caller is ignored
limitOfIgnored(options) == DefaultLimit

limitOf(options) == IF options.limit = <<>> THEN DefaultLimit ELSE options.limit[1]

\* mutant: the text is compared in its own letter case
isCandidateCaseSensitive(verse, lowerQuery, bookFilter) ==
    /\ ~(Truthy(bookFilter) /\ verse.book # bookFilter[1])
    /\ includes(verse.text, lowerQuery)

\* mutant: the book filter is not applied
isCandidateAnyBook(verse, lowerQuery, bookFilter) ==
    includes(toLowerCase(verse.text), lowerQuery)

\* the test of the loop body, lines 185 and 190
isCandidate(verse, lowerQuery, bookFilter) ==
    /\ ~(Truthy(bookFilter) /\ verse.book # bookFilter[1])
    /\ includes(toLowerCase(verse.text), lowerQuery)

\* (a, b) => a.verse - b.verse
byVerse(a, b) == a.verse - b.verse

\* mutant: ascending
byRelevanceAscending(a, b) == a.relevance - b.relevance

\* (a, b) => b.relevance - a.relevance
byRelevance(a, b) == b.relevance - a.relevance

\* the context of one result, lines 193-201
contextOf(index, verse, options) ==
    IF options.includeContext
    THEN LET ofChapter ==
                 SelectSeq(index, LAMBDA v : v.book = verse.book /\ v.chapter = verse.chapter)
             chapterVerses ==
                 sort(ofChapter,
                      [i, j \in 1..Len(ofChapter) |-> byVerse(ofChapter[i], ofChapter[j])])
         IN  getContextVerses(chapterVerses, verse.verse, options.contextSize)
    ELSE <<>>

\* search from line 175 on, over the store it finds
searchBody(index, query, options) ==
    LET bookFilter == options.bookFilter
        lowerQuery == trim(toLowerCase(query))
        candidates == SelectSeq(index, LAMBDA v : isCandidate(v, lowerQuery, bookFilter))
        results    == [i \in 1..Len(candidates) |->
                         LET verse == candidates[i]
                         IN  [book      |-> verse.book,
                              chapter   |-> verse.chapter,
                              verse     |-> verse.verse,
                              text      |-> verse.text,
                              fullText  |-> verse.fullText,
                              context   |-> contextOf(index, verse, options),
                              relevance |-> calculateRelevance(verse.text, query),
                              highlight |-> highlightText(verse.text, query)]]
    IN  IF query = <<>> \/ Len(trim(query)) < 2 THEN Ok(<<>>)
        ELSE IF \E i \in 1..Len(candidates) : highlightThrows(candidates[i].text, query)
             THEN Threw(<<"SyntaxError">>)
             ELSE Ok(slice(sort(results, [i, j \in 1..Len(results) |->
                                                byRelevance(results[i], results[j])]),
                           0, limitOf(options)))

\* whether search reaches its loop over the store
searchIterates(query) == ~(query = <<>> \/ Len(trim(query)) < 2)

----------------------------------------------------------------------------
(* The response of GET /api/search.  The route that makes it is not part of *)
(* the sources at hand, which hold the type of its response (SearchResponse, *)
(* frontend/src/services/api.ts) and the engine it calls; it is written here *)
(* from its specification.                                                   *)

\* mutant: the counts are taken from the results returned
searchResponseOfResults(index, query, options, results) ==
    [query   |-> query,
     results |-> results,
     total   |-> Len(results),
     hasMore |-> Len(results) = limitOf(options)]

\* { query, results, total, hasMore } for a search of the store index that
\* returned results: total counts the candidates before the truncation to limit
searchResponse(index, query, options, results) ==
    LET candidates == SelectSeq(index, LAMBDA v :
                          isCandidate(v, trim(toLowerCase(query)), options.bookFilter))
    IN  [query   |-> query,
         results |-> results,
         total   |-> Len(candidates),
         hasMore |-> Len(candidates) > Len(results)]

----------------------------------------------------------------------------
(* getSearchSuggestions, after its lazy build *)

DefaultSuggestionLimit == 10

startsWith(s, t) == Len(t) <= Len(s) /\ OccursAt(s, t, 1)

\* Set.prototype.add: a new word is appended to the iteration order
setAdd(suggestions, word) ==
    IF \E i \in 1..Len(suggestions) : suggestions[i] = word
    THEN suggestions
    ELSE Append(suggestions, word)

\* mutant: the prefix itself is suggested too
isSuggestionOrEqual(word, lowerQuery) == startsWith(word, lowerQuery)

\* the test of line 249
isSuggestion(word, lowerQuery) ==
    startsWith(word, lowerQuery) /\ Len(word) > Len(lowerQuery)

\* the loop over the words of one verse, lines 248-253: the size is tested
\* after each add
RECURSIVE addWords(_, _, _, _)
addWords(suggestions, words, lowerQuery, limit) ==
    IF words = <<>> THEN suggestions
    ELSE IF isSuggestion(Head(words), lowerQuery)
         THEN LET added == setAdd(suggestions, Head(words))
              IN  IF Len(added) >= limit THEN added
                  ELSE addWords(added, Tail(words), lowerQuery, limit)
         ELSE addWords(suggestions, Tail(words), lowerQuery, limit)

\* mutant: the loop over the verses stops after the first verse
collectFirstVerse(suggestions, index, lowerQuery, limit) ==
    IF index = <<>> THEN suggestions
    ELSE addWords(suggestions, splitWords(toLowerCase(Head(index).text)),
                  lowerQuery, limit)

\* the loop over the verses, lines 245-255: the size is tested after each verse
RECURSIVE collectSuggestions(_, _, _, _)
collectSuggestions(suggestions, index, lowerQuery, limit) ==
    IF index = <<>> THEN suggestions
    ELSE LET added == addWords(suggestions,
                               splitWords(toLowerCase(Head(index).text)),
                               lowerQuery, limit)
         IN  IF Len(added) >= limit THEN added
             ELSE collectSuggestions(added, Tail(index), lowerQuery, limit)

\* the limit as the caller passes it: <<>> when absent, else <<value>>
suggestionLimitOf(limit) == IF limit = <<>> THEN DefaultSuggestionLimit ELSE limit[1]

\* getSearchSuggestions from line 243 on, over the store it finds
suggestBody(index, query, limit) ==
    Ok(slice(collectSuggestions(<<>>, index, toLowerCase(query), suggestionLimitOf(limit)),
             0, suggestionLimitOf(limit)))

----------------------------------------------------------------------------
(* buildSearchIndex *)

\* lines 136 and 141 are not inside the try of lines 145-153: their errors
\* reach the catch of line 156
getBooksThrows(list, fail) ==
    \/ RootPath \in fail
    \/ \E k \in 1..Len(list) : StatPath(list[k]) \in fail

getBooks(list, fail) ==
    SelectSeq(list, LAMBDA item :
        /\ BookPath(item) \notin fail
        /\ \E k \in 1..Len(DirFiles(item)) : endsWith(DirFiles(item)[k], DotMd))

\* the positions at which a build is suspended
Idle     == [at |-> "idle", b |-> 0, f |-> 0]
Done     == [at |-> "done", b |-> 0, f |-> 0]
AtBooks  == [at |-> "getBooks", b |-> 0, f |-> 0]
AtDir(b) == [at |-> "readdir", b |-> b, f |-> 0]
AtFile(b, f) == [at |-> "readFile", b |-> b, f |-> f]
AtEnd    == [at |-> "end", b |-> 0, f |-> 0]

\* the next await of the loops of lines 98-123 once the chapter files of
\* book b up to position f are dealt with: the next file of the book whose
\* name matches, else the next book's readdir, else the end of the loops
nextAwait(books, b, f) ==
    LET files == chapterFiles(books[b])
        todo  == {k \in (f + 1)..Len(files) : chapterMatch(files[k]) # <<>>}
    IN  IF todo # {} THEN AtFile(b, CHOOSE k \in todo : \A j \in todo : k <= j)
        ELSE IF b < Len(books) THEN AtDir(b + 1)
        ELSE AtEnd

\* lines 107-118 for one chapter file that was read
indexChapter(index, book, chapterFile) ==
    LET chapter == parseInt(chapterMatch(chapterFile)[1])
        verses  == parseVersesFromMarkdown(FileContent(book, chapterFile), book, chapter)
    IN  mapSetAll(index, verses)

InFlight(p) == pc[p].at \in {"getBooks", "readdir", "readFile"}

----------------------------------------------------------------------------
(* The callers *)

NumCallers == 2
Callers == 1..NumCallers

\* a call: the operation, its arguments, and whether it took the branch of
\* line 171 or 239 that builds the index first
NoCall ==
    [op |-> "none", query |-> <<>>, options |-> DefaultOptions, lazy |-> FALSE]
SearchCall(query, options) ==
    [op |-> "search", query |-> query, options |-> options, lazy |-> FALSE]
SuggestCall(query, limit) ==
    [op |-> "suggest", query |-> query,
     options |-> [DefaultOptions EXCEPT !.limit = limit], lazy |-> FALSE]
BuildCall ==
    [op |-> "build", query |-> <<>>, options |-> DefaultOptions, lazy |-> FALSE]
Lazy(c) == [c EXCEPT !.lazy = TRUE]
ParseCall(content, book, chapter) ==
    [op |-> "parse", query |-> content,
     options |-> [book |-> book, chapter |-> chapter], lazy |-> FALSE]

\* the queries of the concurrent callers: empty, one character, a word
LifeQueries == {<<>>, <<"a">>, <<"l", "o", "v", "e">>}

\* the prefixes they ask suggestions for
LifePrefixes == {<<"l", "o">>}

\* what the caller's promise settles with, and the store its loop iterated,
\* when its build has ended normally with the store index: the rest of
\* search (lines 175-219) or of getSearchSuggestions (lines 243-259), or the
\* end of buildSearchIndex
continuation(c, index) ==
    IF c.op = "search"
    THEN [ret  |-> searchBody(index, c.query, c.options),
          seen |-> IF searchIterates(c.query) THEN <<index>> ELSE <<>>]
    ELSE IF c.op = "suggest"
    THEN [ret  |-> suggestBody(index, c.query, c.options.limit),
          seen |-> <<index>>]
    ELSE [ret |-> Ok(<<>>), seen |-> <<>>]

\* a build of caller p moves to its next await with the store index, or ends:
\* line 125 sets the flag and, in the same turn of the event loop, the
\* promise resolves and the caller's continuation runs
Advance(p, index, next) ==
    /\ searchIndex' = index
    /\ IF next.at = "end"
       THEN /\ isIndexed' = TRUE
            /\ pc' = [pc EXCEPT ![p] = Done]
            /\ ret' = [ret EXCEPT ![p] = continuation(call[p], index).ret]
            /\ seen' = [seen EXCEPT ![p] = continuation(call[p], index).seen]
       ELSE /\ pc' = [pc EXCEPT ![p] = next]
            /\ UNCHANGED <<isIndexed, ret, seen>>
    /\ UNCHANGED <<fsFail, items, call>>

\* a build of caller p throws (lines 127-130): its caller's promise rejects
Abort(p, error) ==
    /\ pc' = [pc EXCEPT ![p] = Done]
    /\ ret' = [ret EXCEPT ![p] = Threw(error)]
    /\ UNCHANGED <<fsFail, items, searchIndex, isIndexed, call, seen>>

\* mutant: the store is not cleared
StartBuildKeeps(p, c) ==
    /\ pc' = [pc EXCEPT ![p] = AtBooks]
    /\ call' = [call EXCEPT ![p] = c]
    /\ UNCHANGED <<fsFail, items, searchIndex, isIndexed, ret, seen>>

\* buildSearchIndex up to its first await: line 93 clears the store
StartBuild(p, c) ==
    /\ searchIndex' = <<>>
    /\ pc' = [pc EXCEPT ![p] = AtBooks]
    /\ call' = [call EXCEPT ![p] = c]
    /\ UNCHANGED <<fsFail, items, isIndexed, ret, seen>>

\* mutant: search builds the index whatever the flag says
SearchReadyRebuilds(p, query, options) ==
    /\ pc[p] = Idle
    /\ isIndexed
    /\ StartBuild(p, Lazy(SearchCall(query, options)))

\* search(query, options) on an engine whose flag is set: no await, the
\* whole call runs in one turn
SearchReady(p, query, options) ==
    /\ pc[p] = Idle
    /\ isIndexed
    /\ pc' = [pc EXCEPT ![p] = Done]
    /\ call' = [call EXCEPT ![p] = SearchCall(query, options)]
    /\ ret' = [ret EXCEPT ![p] = searchBody(searchIndex, query, options)]
    /\ seen' = [seen EXCEPT ![p] =
                   IF searchIterates(query) THEN <<searchIndex>> ELSE <<>>]
    /\ UNCHANGED <<fsFail, items, searchIndex, isIndexed>>

\* search(query, options) on an engine whose flag is not set: lines 171-172
\* start a build and wait for it
SearchLazy(p, query, options) ==
    /\ pc[p] = Idle
    /\ ~isIndexed
    /\ StartBuild(p, Lazy(SearchCall(query, options)))

\* getSearchSuggestions(query, limit) on an engine whose flag is set
SuggestReady(p, query, limit) ==
    /\ pc[p] = Idle
    /\ isIndexed
    /\ pc' = [pc EXCEPT ![p] = Done]
    /\ call' = [call EXCEPT ![p] = SuggestCall(query, limit)]
    /\ ret' = [ret EXCEPT ![p] = suggestBody(searchIndex, query, limit)]
    /\ seen' = [seen EXCEPT ![p] = <<searchIndex>>]
    /\ UNCHANGED <<fsFail, items, searchIndex, isIndexed>>

\* getSearchSuggestions(query, limit) on an engine whose flag is not set:
\* lines 239-240 start a build and wait for it
SuggestLazy(p, query, limit) ==
    /\ pc[p] = Idle
    /\ ~isIndexed
    /\ StartBuild(p, Lazy(SuggestCall(query, limit)))

\* buildSearchIndex() called directly
BuildExplicit(p) ==
    /\ pc[p] = Idle
    /\ StartBuild(p, BuildCall)

\* mutant: a corpus root that cannot be listed counts as a corpus without books
GetBooksDoneNoBooks(p) ==
    /\ pc[p] = AtBooks
    /\ LET books == IF getBooksThrows(items, fsFail) THEN <<>> ELSE getBooks(items, fsFail)
       IN  Advance(p, searchIndex, IF books = <<>> THEN AtEnd ELSE AtDir(1))

\* mutant: a build that finds the store filled after getBooks takes the index
\* for built
GetBooksDoneSkipsFilled(p) ==
    /\ pc[p] = AtBooks
    /\ IF getBooksThrows(items, fsFail)
       THEN Abort(p, <<"Failed to read bible data directory">>)
       ELSE LET books == getBooks(items, fsFail)
            IN  Advance(p, searchIndex,
                        IF books = <<>> \/ searchIndex # <<>> THEN AtEnd ELSE AtDir(1))

\* getBooks settles
GetBooksDone(p) ==
    /\ pc[p] = AtBooks
    /\ IF getBooksThrows(items, fsFail)
       THEN Abort(p, <<"Failed to read bible data directory">>)
       ELSE LET books == getBooks(items, fsFail)
            IN  Advance(p, searchIndex, IF books = <<>> THEN AtEnd ELSE AtDir(1))

\* fs.readdir(bookPath) of line 100 settles
ReaddirDone(p) ==
    /\ pc[p].at = "readdir"
    /\ LET books == getBooks(items, fsFail)
           b     == pc[p].b
       IN  IF BookPath(books[b]) \in fsFail
           THEN Abort(p, <<"ENOENT">>)
           ELSE Advance(p, searchIndex, nextAwait(books, b, 0))

\* mutant: a chapter file that cannot be read ends the build
ReadFileDoneAborts(p) ==
    /\ pc[p].at = "readFile"
    /\ LET books == getBooks(items, fsFail)
           b     == pc[p].b
           file  == chapterFiles(books[b])[pc[p].f]
       IN  IF FilePath(books[b], file) \in fsFail
           THEN Abort(p, <<"ENOENT">>)
           ELSE Advance(p, indexChapter(searchIndex, books[b], file),
                        nextAwait(books, b, pc[p].f))

\* fs.readFile of line 111 settles: the chapter is indexed, or the error is
\* logged (lines 119-121), and the loops go on
ReadFileDone(p) ==
    /\ pc[p].at = "readFile"
    /\ LET books == getBooks(items, fsFail)
           b     == pc[p].b
           file  == chapterFiles(books[b])[pc[p].f]
           index == IF FilePath(books[b], file) \in fsFail
                    THEN searchIndex
                    ELSE indexChapter(searchIndex, books[b], file)
       IN  Advance(p, index, nextAwait(books, b, pc[p].f))

\* parseVersesFromMarkdown(content, book, chapter) called directly: it is
\* synchronous and touches no field of the engine
Parse(p, content, book, chapter) ==
    /\ pc[p] = Idle
    /\ pc' = [pc EXCEPT ![p] = Done]
    /\ call' = [call EXCEPT ![p] = ParseCall(content, book, chapter)]
    /\ ret' = [ret EXCEPT ![p] = Ok(parseVersesFromMarkdown(content, book, chapter))]
    /\ UNCHANGED <<fsFail, items, searchIndex, isIndexed, seen>>

\* the caller takes the settled promise and may call again
Return(p) ==
    /\ pc[p] = Done
    /\ pc' = [pc EXCEPT ![p] = Idle]
    /\ call' = [call EXCEPT ![p] = NoCall]
    /\ ret' = [ret EXCEPT ![p] = Ok(NoValue)]
    /\ seen' = [seen EXCEPT ![p] = <<>>]
    /\ UNCHANGED <<fsFail, items, searchIndex, isIndexed>>

Init ==
    /\ fsFail \in FailureCases
    /\ items = RootItems
    /\ searchIndex = <<>>
    /\ isIndexed = FALSE
    /\ pc = [p \in Callers |-> Idle]
    /\ call = [p \in Callers |-> NoCall]
    /\ ret = [p \in Callers |-> Ok(NoValue)]
    /\ seen = [p \in Callers |-> <<>>]

Next ==
    \/ \E p \in Callers, q \in LifeQueries : SearchReady(p, q, DefaultOptions)
    \/ \E p \in Callers, q \in LifeQueries : SearchLazy(p, q, DefaultOptions)
    \/ \E p \in Callers, q \in LifePrefixes : SuggestReady(p, q, <<>>)
    \/ \E p \in Callers, q \in LifePrefixes : SuggestLazy(p, q, <<>>)
    \/ \E p \in Callers : BuildExplicit(p)
    \/ \E p \in Callers : GetBooksDone(p)
    \/ \E p \in Callers : ReaddirDone(p)
    \/ \E p \in Callers : ReadFileDone(p)
    \/ \E p \in Callers : Return(p)

Spec == Init /\ [][Next]_vars

\* the store a build of the corpus leaves when nothing runs beside it
RECURSIVE BuildFrom(_, _, _, _)
BuildFrom(index, books, at, fail) ==
    IF at.at = "end" THEN index
    ELSE IF at.at = "readdir" THEN BuildFrom(index, books, nextAwait(books, at.b, 0), fail)
    ELSE LET file == chapterFiles(books[at.b])[at.f]
         IN  BuildFrom(IF FilePath(books[at.b], file) \in fail THEN index
                       ELSE indexChapter(index, books[at.b], file),
                       books, nextAwait(books, at.b, at.f), fail)

\* of a corpus listed as list whose paths in fail fail
FullStoreOf(list, fail) ==
    LET books == getBooks(list, fail)
    IN  BuildFrom(<<>>, books, IF books = <<>> THEN AtEnd ELSE AtDir(1), fail)

FullStore == FullStoreOf(items, fsFail)

----------------------------------------------------------------------------
(* Claims about concurrent callers, under Spec *)

\* C1: at most one execution of buildSearchIndex is in flight at any time.
BuildIsExclusive == Cardinality({p \in Callers : InFlight(p)}) <= 1

\* C2: whenever search iterates the verse store, the store equals the
\* complete result of a finished build of the corpus.
ReadersSeeCompleteStore ==
    \A p \in Callers : seen[p] # <<>> => seen[p][1] = FullStore

\* C3: a search whose trimmed query has length 0 or 1 settles with the empty
\* sequence, never with an error, whatever the state of the index and of the
\* corpus root.
ShortQueryReturnsEmpty ==
    \A p \in Callers :
        (pc[p] = Done /\ call[p].op = "search" /\ ~searchIterates(call[p].query))
            => (ret[p].kind = "ok" /\ ret[p].value = <<>>)

\* C14: a search (query of length >= 2) or a getSearchSuggestions called
\* while the index is not Ready builds the index first; when the call returns
\* successfully the index is Ready and its results were computed over the
\* fully built store.
LazyCallsSeeBuiltStore ==
    \A p \in Callers :
        (pc[p] = Done /\ call[p].lazy /\ ret[p].kind = "ok" /\ seen[p] # <<>>)
            => (isIndexed /\ seen[p][1] = FullStore)

----------------------------------------------------------------------------
(* search over any store, under SpecSearch *)

MaxVerses == 3

\* chapter lines of some corpus: <<book, chapter, line>>
LinePool ==
    { <<"John", 1, <<"1", ".", " ", "G", "o", "d", " ", "i", "s", " ", "L", "o", "v", "e">>>>,
      <<"John", 1, <<"1", " ", "l", "o", "v", "e", " ">> \o [i \in 1..(ShortVerseLength - 5) |-> "x"]>>,
      <<"John", 1, <<"2", ".", " ", "G", "o", "d", " ", "i", "s", " ", "l", "o", "v", "e", "d">>>>,
      <<"John", 1, <<"*", "*", "2", "*", "*", " ", "h", "a", "t", "e", " ", "(", "i", "t">>>>,
      <<"John", 1, <<"3", ".", " ", "G", "o", "d", " ", "i", "s", " ", "L", "o", "v", "e">>>>,
      <<"John", 1, <<"3", " ", "l", "o", "v", "e", " ">> \o [i \in 1..(ShortVerseLength - 6) |-> "x"]>>,
      <<"Mark", 1, <<"1", ".", " ", "G", "o", "d", " ", "i", "s", " ", "l", "o", "v", "e", "d">>>>,
      <<"Mark", 1, <<"1", ".", " ", "G", "o", "d", " ", "i", "s", " ", "L", "o", "v", "e">>>> }

\* the verses the parser makes of them
VersePool ==
    { parseVersesFromMarkdown(<<l[3]>>, l[1], l[2])[1] : l \in LinePool }

\* the stores of at most MaxVerses of these verses, in any iteration order,
\* no key twice
Stores ==
    UNION { { st \in [1..n -> VersePool] :
                \A i, j \in 1..n : i # j => keyOf(st[i]) # keyOf(st[j]) }
            : n \in 0..MaxVerses }

Queries ==
    { <<>>, <<"l">>, <<"l", "o", "v", "e">>, <<"L", "o", "v", "e", " ">>, <<"i", "s", " ", "l", "o", "v", "e">>, <<"o", "d">>, <<"(", "i", "t">> }

BookFilters == { <<>>, <<"">>, <<"John">>, <<"Mark">>, <<"Luke">> }

Limits == { <<>> } \cup { <<l>> : l \in (-1)..MaxVerses }

SearchOptions ==
    { [bookFilter |-> bf, limit |-> l,
       includeContext |-> TRUE, contextSize |-> DefaultContextSize]
        : bf \in { <<>>, <<"John">> }, l \in Limits }
    \cup
    { [bookFilter |-> bf, limit |-> <<>>,
       includeContext |-> TRUE, contextSize |-> DefaultContextSize]
        : bf \in BookFilters }
    \cup
    { [bookFilter |-> <<>>, limit |-> <<>>, includeContext |-> ic, contextSize |-> cs]
        : ic \in BOOLEAN, cs \in 0..DefaultContextSize }

\* an engine whose index was built from some corpus
InitSearch ==
    /\ fsFail = {}
    /\ items = RootItems
    /\ searchIndex \in Stores
    /\ isIndexed = TRUE
    /\ pc = [p \in Callers |-> Idle]
    /\ call = [p \in Callers |-> NoCall]
    /\ ret = [p \in Callers |-> Ok(NoValue)]
    /\ seen = [p \in Callers |-> <<>>]

NextSearch ==
    \E q \in Queries, o \in SearchOptions : SearchReady(1, q, o)

SpecSearch == InitSearch /\ [][NextSearch]_vars

----------------------------------------------------------------------------
(* Claims about the results of search, under SpecSearch *)

\* a search of caller p went through the store and returned
Searched(p) ==
    /\ pc[p] = Done
    /\ call[p].op = "search"
    /\ seen[p] # <<>>
    /\ ret[p].kind = "ok"

StoreSeen(p) == seen[p][1]
Results(p) == ret[p].value
Range(a) == {a[i] : i \in 1..Len(a)}

\* what a result says of its verse
VerseOf(r) ==
    [book |-> r.book, chapter |-> r.chapter, verse |-> r.verse,
     text |-> r.text, fullText |-> r.fullText]

\* the stored verses the query of call c selects: the text contains the
\* trimmed query, letter case aside, and the book is the filter's, if any
Qualifying(index, c) ==
    {v \in Range(index) :
        /\ includes(toLowerCase(v.text), toLowerCase(trim(c.query)))
        /\ Truthy(c.options.bookFilter) => v.book = c.options.bookFilter[1]}

\* the limit call c asks for, 50 when it gives none
LimitAsked(c) == IF c.options.limit = <<>> THEN 50 ELSE c.options.limit[1]

\* the place of a verse in the iteration order of the store
PlaceIn(index, r) == CHOOSE i \in 1..Len(index) : keyOf(index[i]) = keyOf(r)

\* C4: with a limit that does not truncate, the verses returned are exactly
\* the stored verses whose text contains the trimmed query, letter case aside.
CandidateFilterIsExact ==
    \A p \in Callers :
        (Searched(p) /\ LimitAsked(call[p]) >= Cardinality(Qualifying(StoreSeen(p), call[p])))
            => {VerseOf(r) : r \in Range(Results(p))} = Qualifying(StoreSeen(p), call[p])

\* a query matched a verse that holds it in other letter case inside a longer
\* word, and left another verse of the store out
CandidateFilterWitness ==
    \E p \in Callers :
        /\ Searched(p)
        /\ ~Truthy(call[p].options.bookFilter)
        /\ LimitAsked(call[p]) >= Len(StoreSeen(p))
        /\ \E r \in Range(Results(p)) :
               /\ ~includes(r.text, trim(call[p].query))
               /\ \A w \in Range(splitWords(toLowerCase(r.text))) :
                      w # toLowerCase(trim(call[p].query))
        /\ Len(Results(p)) < Len(StoreSeen(p))

\* C5: with a book filter, every result is of that book.
BookFilterIsRespected ==
    \A p \in Callers :
        (Searched(p) /\ Truthy(call[p].options.bookFilter))
            => \A r \in Range(Results(p)) : r.book = call[p].options.bookFilter[1]

\* a filtered search returned a verse and left out a verse of another book
\* whose text holds the query
BookFilterWitness ==
    \E p \in Callers :
        /\ Searched(p)
        /\ Truthy(call[p].options.bookFilter)
        /\ Results(p) # <<>>
        /\ \E v \in Range(StoreSeen(p)) :
               /\ v.book # call[p].options.bookFilter[1]
               /\ includes(toLowerCase(v.text), toLowerCase(trim(call[p].query)))

\* C6, as claimed: the sequence returned is no longer than the limit, for
\* every limit.
ResultsWithinAnyLimit ==
    \A p \in Callers :
        Searched(p) => Len(Results(p)) <= LimitAsked(call[p])

\* C6, amended: the sequence returned is no longer than a limit >= 0, and a
\* negative limit -m drops the last m of the sorted candidates.
ResultsWithinLimit ==
    \A p \in Callers :
        Searched(p) =>
            LET limit == LimitAsked(call[p])
                found == Cardinality(Qualifying(StoreSeen(p), call[p]))
            IN  /\ limit >= 0 => Len(Results(p)) <= limit
                /\ limit < 0 => Len(Results(p)) = Max(found + limit, 0)

\* a limit >= 1 cut the candidates short
ResultsWithinLimitWitness ==
    \E p \in Callers :
        /\ Searched(p)
        /\ LimitAsked(call[p]) >= 1
        /\ Len(Results(p)) = LimitAsked(call[p])
        /\ Cardinality(Qualifying(StoreSeen(p), call[p])) > LimitAsked(call[p])

\* r comes before the verse v in the order search sorts by: higher score
\* first, and equal scores in the order of the store
RankedBefore(index, query, r, v) ==
    \/ r.relevance > calculateRelevance(v.text, query)
    \/ /\ r.relevance = calculateRelevance(v.text, query)
       /\ PlaceIn(index, r) < PlaceIn(index, v)

\* C7: the results are in descending order of relevance, equal scores in the
\* order of the store, and truncation keeps the first of that order.
SortedByRelevanceStable ==
    \A p \in Callers :
        Searched(p) =>
            LET res   == Results(p)
                index == StoreSeen(p)
                limit == LimitAsked(call[p])
                found == Qualifying(index, call[p])
            IN  /\ \A i, j \in 1..Len(res) :
                       i < j => RankedBefore(index, call[p].query, res[i], res[j])
                /\ \A v \in found :
                       (\A i \in 1..Len(res) : keyOf(res[i]) # keyOf(v))
                           => \A i \in 1..Len(res) :
                                  RankedBefore(index, call[p].query, res[i], v)
                /\ limit >= 0 => Len(res) = Min(limit, Cardinality(found))

\* the sort moved a verse ahead of one stored before it, and two results
\* tie and keep the order of the store
SortedByRelevanceWitness ==
    \E p \in Callers :
        /\ Searched(p)
        /\ \E i, j \in 1..Len(Results(p)) :
               /\ i < j
               /\ Results(p)[i].relevance > Results(p)[j].relevance
               /\ PlaceIn(StoreSeen(p), Results(p)[i]) > PlaceIn(StoreSeen(p), Results(p)[j])
        /\ \E i, j \in 1..Len(Results(p)) :
               /\ i < j
               /\ Results(p)[i].relevance = Results(p)[j].relevance

\* the pairs (query word, verse word) of a query and a verse text
WordPairs(text, query) ==
    LET queryWords == splitWords(toLowerCase(query))
        textWords  == splitWords(toLowerCase(text))
    IN  {[q |-> queryWords[i], t |-> textWords[j]] @@ [i |-> i, j |-> j]
            : i \in 1..Len(queryWords), j \in 1..Len(textWords)}

\* C8: the relevance of every result is 100 + 50*E + 25*P + (10 if the text
\* is shorter than 100 characters), E the equal pairs of words and P the
\* pairs where the verse word contains the query word without being it.
RelevanceIsTheFormula ==
    \A p \in Callers :
        Searched(p) =>
            \A r \in Range(Results(p)) :
                LET pairs == WordPairs(r.text, call[p].query)
                    E == Cardinality({w \in pairs : w.t = w.q})
                    P == Cardinality({w \in pairs : w.t # w.q /\ includes(w.t, w.q)})
                IN  r.relevance = 100 + 50 * E + 25 * P
                                      + (IF Len(r.text) < 100 THEN 10 ELSE 0)

\* the verse of r1 and the verse of r2 differ in one word, which is the query
\* word qw in r1 and a longer word containing qw in r2, and nothing else
\* tells their scores apart
ExactAgainstPartial(r1, r2, query, qw) ==
    LET w1 == splitWords(toLowerCase(r1.text))
        w2 == splitWords(toLowerCase(r2.text))
        others == Range(splitWords(toLowerCase(query))) \ {qw}
        contributes(x, y) == IF y = x THEN 2 ELSE IF includes(y, x) THEN 1 ELSE 0
    IN  /\ Len(w1) = Len(w2)
        /\ \E i \in 1..Len(w1) :
               /\ w1[i] = qw
               /\ w2[i] # qw
               /\ includes(w2[i], qw)
               /\ \A j \in 1..Len(w1) : j # i => w1[j] = w2[j]
               /\ \A x \in others : contributes(x, w1[i]) = contributes(x, w2[i])
        /\ (Len(r1.text) < 100) = (Len(r2.text) < 100)
        /\ includes(toLowerCase(r1.text), toLowerCase(query))
               = includes(toLowerCase(r2.text), toLowerCase(query))

\* C9, as claimed: of two results that differ only in that one has a query
\* word as a whole word and the other inside a longer word, the first scores
\* at least 50 more and is ranked above.
ExactWordBeatsPartialBy50 ==
    \A p \in Callers :
        Searched(p) =>
            \A i, j \in 1..Len(Results(p)) :
                \A qw \in Range(splitWords(toLowerCase(call[p].query))) :
                    ExactAgainstPartial(Results(p)[i], Results(p)[j], call[p].query, qw)
                        => /\ Results(p)[i].relevance >= Results(p)[j].relevance + 50
                           /\ i < j

\* C9, amended: the first scores at least 25 more and is ranked above.
ExactWordBeatsPartialBy25 ==
    \A p \in Callers :
        Searched(p) =>
            \A i, j \in 1..Len(Results(p)) :
                \A qw \in Range(splitWords(toLowerCase(call[p].query))) :
                    ExactAgainstPartial(Results(p)[i], Results(p)[j], call[p].query, qw)
                        => /\ Results(p)[i].relevance >= Results(p)[j].relevance + 25
                           /\ i < j

\* such a pair was returned, the verse with the whole word stored after the
\* other
ExactWordBeatsPartialWitness ==
    \E p \in Callers :
        /\ Searched(p)
        /\ \E i, j \in 1..Len(Results(p)) :
               /\ \E qw \in Range(splitWords(toLowerCase(call[p].query))) :
                      ExactAgainstPartial(Results(p)[i], Results(p)[j], call[p].query, qw)
               /\ PlaceIn(StoreSeen(p), Results(p)[i]) > PlaceIn(StoreSeen(p), Results(p)[j])

\* the verse numbers stored for the chapter of r
ChapterNumbers(index, r) ==
    {v.verse : v \in {u \in Range(index) : u.book = r.book /\ u.chapter = r.chapter}}

\* the stored verse of the chapter of r at position k (from 0) by verse number
ChapterVerseAt(index, r, k) ==
    CHOOSE v \in Range(index) :
        /\ v.book = r.book
        /\ v.chapter = r.chapter
        /\ Cardinality({x \in ChapterNumbers(index, r) : x < v.verse}) = k

\* C10: with includeContext, the context of a result at position k of the n
\* verses of its chapter, by verse number, is the verses at positions
\* max(0, k - contextSize) .. min(n - 1, k + contextSize), ascending, the
\* target among them.
ContextIsTheWindow ==
    \A p \in Callers :
        (Searched(p) /\ call[p].options.includeContext) =>
            \A r \in Range(Results(p)) :
                LET index == StoreSeen(p)
                    size  == call[p].options.contextSize
                    n     == Cardinality(ChapterNumbers(index, r))
                    k     == Cardinality({x \in ChapterNumbers(index, r) : x < r.verse})
                    lo    == Max(0, k - size)
                    hi    == Min(n - 1, k + size)
                IN  /\ Len(r.context) = hi - lo + 1
                    /\ \A m \in 1..Len(r.context) :
                           r.context[m] = ChapterVerseAt(index, r, lo + m - 1)
                    /\ \E m \in 1..Len(r.context) : r.context[m] = VerseOf(r)

\* a window that leaves out a verse of the chapter, taken from a chapter
\* whose verses are not stored in the order of their numbers
ContextWindowWitness ==
    \E p \in Callers :
        /\ Searched(p)
        /\ call[p].options.includeContext
        /\ \E r \in Range(Results(p)) :
               /\ Len(r.context) >= 2
               /\ Len(r.context) < Cardinality(ChapterNumbers(StoreSeen(p), r))
               /\ \E a, b \in Range(StoreSeen(p)) :
                      /\ a.book = r.book /\ b.book = r.book
                      /\ a.chapter = r.chapter /\ b.chapter = r.chapter
                      /\ a.verse < b.verse
                      /\ PlaceIn(StoreSeen(p), a) > PlaceIn(StoreSeen(p), b)

\* the response to the search of caller p
ResponseTo(p) ==
    searchResponse(StoreSeen(p), call[p].query, call[p].options, Results(p))

----------------------------------------------------------------------------
(* getSearchSuggestions over any store, under SpecSuggest *)

SuggestLinePool ==
    { <<"John", 1, <<"1", ".", " ", "I", "n", " ", "t", "h", "e", " ", "B", "e", "g", "i", "n", "n", "i", "n", "g">>>>,
      <<"John", 1, <<"2", " ", "b", "e", "e", " ", "b", "e", "e", "n", " ", "b", "e", "e", "r", " ", "b", "e", "e", "s", " ", "b", "e", "g", "i", "n">>>>,
      <<"John", 1, <<"3", ".", " ", "b", "e", " ", "t", "h", "e", " ", "b", "e", "g", "i", "n", "n", "i", "n", "g">>>>,
      <<"Mark", 1, <<"1", ".", " ", "T", "h", "e", " ", "b", "e", "g", "i", "n", "n", "i", "n", "g", " ", "b", "e", "g", "i", "n", "s">>>>,
      <<"Mark", 1, <<"2", ".", " ", "B", "e", "g", "i", "n", " ", "b", "e">>>> }

SuggestVersePool ==
    { parseVersesFromMarkdown(<<l[3]>>, l[1], l[2])[1] : l \in SuggestLinePool }

\* the stores of at most MaxVerses of these verses, in any iteration order
SuggestStores ==
    UNION { { st \in [1..n -> SuggestVersePool] :
                \A i, j \in 1..n : i # j => keyOf(st[i]) # keyOf(st[j]) }
            : n \in 0..MaxVerses }

Prefixes ==
    { <<>>, <<"b", "e">>, <<"B", "E">>, <<"b", "e", "g", "i">>,
      <<"b", "e", "g", "i", "n", "n", "i", "n", "g">>, <<"x">> }

MaxSuggestions == 5

\* a limit is a count; absent, it is the default
SuggestionLimits == { <<>> } \cup { <<l>> : l \in {0, 1, 2, MaxSuggestions} }

InitSuggest ==
    /\ fsFail = {}
    /\ items = RootItems
    /\ searchIndex \in SuggestStores
    /\ isIndexed = TRUE
    /\ pc = [p \in Callers |-> Idle]
    /\ call = [p \in Callers |-> NoCall]
    /\ ret = [p \in Callers |-> Ok(NoValue)]
    /\ seen = [p \in Callers |-> <<>>]

NextSuggest ==
    \E q \in Prefixes, l \in SuggestionLimits : SuggestReady(1, q, l)

SpecSuggest == InitSuggest /\ [][NextSuggest]_vars

\* getSearchSuggestions of caller p returned
Suggested(p) ==
    /\ pc[p] = Done
    /\ call[p].op = "suggest"
    /\ ret[p].kind = "ok"

\* the limit the caller of call c asked for
SuggestionsAsked(c) ==
    IF c.options.limit = <<>> THEN DefaultSuggestionLimit ELSE c.options.limit[1]

\* the white-space delimited words of the texts of a store, lower-cased, in
\* the order of the store
RECURSIVE StoreWords(_)
StoreWords(index) ==
    IF index = <<>> THEN <<>>
    ELSE LET words == splitWords(Head(index).text)
         IN  [k \in 1..Len(words) |-> toLowerCase(words[k])] \o StoreWords(Tail(index))

\* w is the prefix, longer
Extends(w, prefix) ==
    /\ Len(w) > Len(prefix)
    /\ SubSeq(w, 1, Len(prefix)) = prefix

\* C11: getSearchSuggestions(prefix, limit) returns at most limit words, no
\* word twice, all in lower case, each a white-space delimited word of the
\* text of a stored verse, each starting with the lower-cased prefix and
\* longer than it; the prefix itself is never returned.
SuggestionsAreExtensions ==
    \A p \in Callers :
        Suggested(p) =>
            LET r      == Results(p)
                prefix == toLowerCase(call[p].query)
            IN  /\ Len(r) <= SuggestionsAsked(call[p])
                /\ \A i, j \in 1..Len(r) : i # j => r[i] # r[j]
                /\ \A i \in 1..Len(r) :
                       /\ \A k \in 1..Len(r[i]) : r[i][k] \notin DOMAIN LowerOf
                       /\ r[i] \in Range(StoreWords(StoreSeen(p)))
                       /\ Extends(r[i], prefix)
                       /\ r[i] # prefix

\* a prefix in upper case, also a word of the store, a text with a capital
\* letter, and more words that qualify than the limit
SuggestionsWitness ==
    \E p \in Callers :
        /\ Suggested(p)
        /\ call[p].query # toLowerCase(call[p].query)
        /\ toLowerCase(call[p].query) \in Range(StoreWords(StoreSeen(p)))
        /\ Len(Results(p)) = SuggestionsAsked(call[p])
        /\ Len(Results(p)) >= 2
        /\ \E w \in Range(StoreWords(StoreSeen(p))) :
               /\ Extends(w, toLowerCase(call[p].query))
               /\ w \notin Range(Results(p))
        /\ \E v \in Range(StoreSeen(p)), w \in Range(Results(p)) :
               /\ w \in Range(StoreWords(<<v>>))
               /\ w \notin Range(splitWords(v.text))

\* the number of distinct words that extend the prefix and come first in the
\* store before the first occurrence of w
ExtensionsBefore(index, prefix, w) ==
    LET words == StoreWords(index)
        first == CHOOSE k \in 1..Len(words) :
                     words[k] = w /\ \A j \in 1..(k - 1) : words[j] # w
    IN  Cardinality({ words[j] : j \in {i \in 1..(first - 1) : Extends(words[i], prefix)} })

\* C12 as stated: getSearchSuggestions(p, 5) includes every word of the
\* store that extends p, and not p.
SuggestionsIncludeEveryExtension ==
    \A p \in Callers :
        (Suggested(p) /\ SuggestionsAsked(call[p]) = MaxSuggestions) =>
            LET prefix == toLowerCase(call[p].query)
            IN  /\ \A w \in Range(StoreWords(StoreSeen(p))) :
                       Extends(w, prefix) => w \in Range(Results(p))
                /\ prefix \notin Range(Results(p))

\* C12: getSearchSuggestions(p, 5) includes every word w of the store that
\* extends p and has fewer than 5 distinct words extending p before it in
\* the order of the store, and never p itself.
SuggestionsIncludeFirstExtensions ==
    \A p \in Callers :
        (Suggested(p) /\ SuggestionsAsked(call[p]) = MaxSuggestions) =>
            LET prefix == toLowerCase(call[p].query)
            IN  /\ \A w \in Range(StoreWords(StoreSeen(p))) :
                       (/\ Extends(w, prefix)
                        /\ ExtensionsBefore(StoreSeen(p), prefix, w) < MaxSuggestions)
                           => w \in Range(Results(p))
                /\ prefix \notin Range(Results(p))

\* "beginning" is suggested for "begi" from a verse that is not the first of
\* the store, and "begi" is not
SuggestionsIncludeWitness ==
    \E p \in Callers :
        /\ Suggested(p)
        /\ SuggestionsAsked(call[p]) = MaxSuggestions
        /\ call[p].query = <<"b", "e", "g", "i">>
        /\ <<"b", "e", "g", "i", "n", "n", "i", "n", "g">> \in Range(Results(p))
        /\ <<"b", "e", "g", "i", "n", "n", "i", "n", "g">> \notin Range(StoreWords(<<StoreSeen(p)[1]>>))

----------------------------------------------------------------------------
(* One caller at a time and a corpus that changes between calls, under      *)
(* SpecBuild                                                                *)

\* between two calls the corpus is listed in another order, or other paths
\* of it fail
CorpusChanges ==
    /\ \A p \in Callers : pc[p] = Idle
    /\ fsFail' \in BuildFailureCases
    /\ items' \in RootListings
    /\ UNCHANGED <<searchIndex, isIndexed, pc, call, ret, seen>>

InitBuild ==
    /\ fsFail \in BuildFailureCases
    /\ items \in RootListings
    /\ searchIndex = <<>>
    /\ isIndexed = FALSE
    /\ pc = [p \in Callers |-> Idle]
    /\ call = [p \in Callers |-> NoCall]
    /\ ret = [p \in Callers |-> Ok(NoValue)]
    /\ seen = [p \in Callers |-> <<>>]

NextBuild ==
    \/ \E q \in LifeQueries : SearchReady(1, q, DefaultOptions)
    \/ \E q \in LifeQueries : SearchLazy(1, q, DefaultOptions)
    \/ \E q \in LifePrefixes : SuggestReady(1, q, <<>>)
    \/ \E q \in LifePrefixes : SuggestLazy(1, q, <<>>)
    \/ BuildExplicit(1)
    \/ GetBooksDone(1)
    \/ ReaddirDone(1)
    \/ ReadFileDone(1)
    \/ Return(1)
    \/ CorpusChanges

SpecBuild == InitBuild /\ [][NextBuild]_vars

\* the call of caller p ran buildSearchIndex, which has ended
BuildEnded(p) ==
    /\ pc[p] = Done
    /\ (call[p].op = "build" \/ call[p].lazy)

\* the chapter files of the corpus: <<book, file name>>
CorpusFiles ==
    UNION { { <<book, DirFiles(book)[k]>> : k \in 1..Len(DirFiles(book)) }
            : book \in Range(RootItems) }

\* of the verses of one chapter file, the last of each number
LastOfEachNumber(verses) ==
    { verses[i] : i \in { k \in 1..Len(verses) :
                            \A j \in (k + 1)..Len(verses) : verses[j].verse # verses[k].verse } }

\* the verses that parsing the corpus gives, those of the paths in fail left
\* out: of each book directory that can be inspected and listed, the files
\* that buildSearchIndex takes for chapter files and that can be read (no
\* two files of the corpus hold the same verse)
CorpusVerses(fail) ==
    UNION { LastOfEachNumber(parseVersesFromMarkdown(FileContent(bf[1], bf[2]), bf[1],
                                                     parseInt(chapterMatch(bf[2])[1])))
            : bf \in { x \in CorpusFiles :
                         /\ chapterMatch(x[2]) # <<>>
                         /\ StatPath(x[1]) \notin fail
                         /\ BookPath(x[1]) \notin fail
                         /\ FilePath(x[1], x[2]) \notin fail } }

\* a store as the mapping (book, chapter, verse) -> text
MappingOf(verses) == { <<keyOf(v), v.text>> : v \in verses }
Mapping(index) == MappingOf(Range(index))

\* C15: a buildSearchIndex that succeeds with no other build in flight leaves
\* the store equal to the mapping (book, chapter, verse) -> text that parsing
\* the current corpus gives, whatever the store held before, and equal in
\* content to what a build gives under any order of the books.
BuildReplacesStore ==
    \A p \in Callers :
        (BuildEnded(p) /\ ret[p].kind = "ok") =>
            /\ Mapping(searchIndex) = MappingOf(CorpusVerses(fsFail))
            /\ \A i, j \in 1..Len(searchIndex) :
                   i # j => keyOf(searchIndex[i]) # keyOf(searchIndex[j])
            /\ \A list \in RootListings :
                   Mapping(searchIndex) = Mapping(FullStoreOf(list, fsFail))

\* an explicit build on an index that is Ready, of a corpus listed Mark
\* first of which a chapter cannot be read
BuildReplacesWitness ==
    \E p \in Callers :
        /\ BuildEnded(p)
        /\ call[p].op = "build"
        /\ ret[p].kind = "ok"
        /\ items = <<"Mark", "John">>
        /\ \E x \in fsFail : x \in { FilePath(bf[1], bf[2]) : bf \in CorpusFiles }
        /\ Len(searchIndex) >= 2
        /\ searchIndex[1].book = "Mark"

\* the stores that complete builds leave
Snapshots ==
    { FullStoreOf(list, fail) :
        list \in RootListings,
        fail \in { f \in BuildFailureCases : \A l \in RootListings : ~getBooksThrows(l, f) } }

\* C16: after a build fails the index is either not Ready or still holds a
\* complete snapshot: it never counts as Ready with a store that the failed
\* build left empty or partial.
FailedBuildKeepsSnapshot ==
    \A p \in Callers :
        (BuildEnded(p) /\ ret[p].kind = "error") =>
            (~isIndexed \/ searchIndex \in Snapshots)

\* C17: when the corpus root cannot be listed, buildSearchIndex ends with an
\* error that reaches its caller, also the search or getSearchSuggestions
\* that started it; an index that was not Ready stays not Ready, and the next
\* search or getSearchSuggestions starts a build again.
RootFailureReachesCaller ==
    [][\A p \in Callers :
          /\ (pc[p] = AtBooks /\ RootPath \in fsFail /\ pc'[p] # pc[p]) =>
                 /\ pc'[p] = Done
                 /\ ret'[p] = Threw(<<"Failed to read bible data directory">>)
                 /\ isIndexed' = isIndexed
          /\ (pc[p] = Idle /\ ~isIndexed /\ call'[p].op \in {"search", "suggest"}) =>
                 /\ pc'[p] = AtBooks
                 /\ call'[p].lazy]_vars

\* a search that found the index not Ready got the error of the root, and
\* the index is still not Ready
RootFailureWitness ==
    \E p \in Callers :
        /\ pc[p] = Done
        /\ call[p].op = "search"
        /\ call[p].lazy
        /\ RootPath \in fsFail
        /\ ret[p] = Threw(<<"Failed to read bible data directory">>)
        /\ ~isIndexed

\* C18: every verse of a built index has chapter >= 1 and verse >= 1, and its
\* book and chapter are those of a chapter file of the corpus.
IndexedVersesArePositive ==
    \A i \in 1..Len(searchIndex) :
        /\ searchIndex[i].chapter >= 1
        /\ searchIndex[i].verse >= 1
        /\ \E bf \in CorpusFiles :
               /\ bf[1] = searchIndex[i].book
               /\ chapterMatch(bf[2]) # <<>>
               /\ parseInt(chapterMatch(bf[2])[1]) = searchIndex[i].chapter

\* C19: a chapter file that cannot be read is skipped: the build ends without
\* error, the index is Ready and the store holds every verse of every chapter
\* that can be read.
UnreadableChapterIsSkipped ==
    \A p \in Callers :
        (/\ BuildEnded(p)
         /\ fsFail \subseteq { FilePath(bf[1], bf[2]) : bf \in CorpusFiles })
            => /\ ret[p].kind = "ok"
               /\ isIndexed
               /\ CorpusVerses(fsFail) \subseteq Range(searchIndex)

\* a build that ended although a chapter file of John could not be read: the
\* store holds chapter 2 of John and Mark, and no verse of the file
UnreadableChapterWitness ==
    \E p \in Callers :
        /\ BuildEnded(p)
        /\ ret[p].kind = "ok"
        /\ isIndexed
        /\ \E v \in Range(searchIndex) : v.book = "John" /\ v.chapter = 2
        /\ \E v \in Range(searchIndex) : v.book = "Mark"
        /\ \E k \in 1..Len(DirFiles("John")) :
               /\ fsFail = { FilePath("John", DirFiles("John")[k]) }
               /\ \A v \in Range(parseVersesFromMarkdown(
                                  FileContent("John", DirFiles("John")[k]), "John", 1)) :
                      v \notin Range(searchIndex)

\* C20: a book directory that cannot be inspected or listed during a build is
\* skipped: the build goes on, ends without error and has indexed the other
\* books.
UnreadableBookIsSkipped ==
    \A p \in Callers :
        (/\ BuildEnded(p)
         /\ fsFail # {}
         /\ fsFail \subseteq UNION { {StatPath(book), BookPath(book)} : book \in Range(RootItems) })
            => /\ ret[p].kind = "ok"
               /\ isIndexed
               /\ CorpusVerses(fsFail) \subseteq Range(searchIndex)

\* C21: readers never change shared state: on an index that is Ready a call
\* of search or getSearchSuggestions leaves the verse store (keys, verses and
\* iteration order) and the readiness flag as they were.
ReadersLeaveIndexAlone ==
    [][\A p \in Callers :
          (isIndexed /\ pc[p] = Idle /\ call'[p].op \in {"search", "suggest"}) =>
              (searchIndex' = searchIndex /\ isIndexed' = isIndexed)]_vars

\* a search on a Ready index that returned results
ReadersWitness ==
    \E p \in Callers :
        /\ pc[p] = Done
        /\ call[p].op = "search"
        /\ ~call[p].lazy
        /\ isIndexed
        /\ ret[p].kind = "ok"
        /\ Len(ret[p].value) >= 1
        /\ Len(searchIndex) >= 2

\* C22: the test of the short query comes before the lazy build: a search
\* whose trimmed query has fewer than 2 characters returns the empty sequence
\* at once, starts no build and leaves the flag and the store as they were,
\* also when the index is not Ready.
ShortQueryBeforeBuild ==
    [][\A p \in Callers :
          (pc[p] = Idle /\ call'[p].op = "search" /\ ~searchIterates(call'[p].query)) =>
              /\ pc'[p] = Done
              /\ ret'[p] = Ok(<<>>)
              /\ searchIndex' = searchIndex
              /\ isIndexed' = isIndexed]_vars

\* the last verse of a parsed chapter with the number of the one at i
LastWithNumber(verses, i) ==
    verses[CHOOSE k \in i..Len(verses) :
               /\ verses[k].verse = verses[i].verse
               /\ \A j \in (k + 1)..Len(verses) : verses[j].verse # verses[i].verse]

\* C24: the store holds at most one verse per (book, chapter, verse), and
\* when several lines of a chapter file carry the same verse number the text
\* and fullText stored are those of the last such line.
LastWriteWins ==
    /\ \A i, j \in 1..Len(searchIndex) :
           i # j => keyOf(searchIndex[i]) # keyOf(searchIndex[j])
    /\ \A p \in Callers :
           (BuildEnded(p) /\ ret[p].kind = "ok") =>
               \A bf \in { x \in CorpusFiles :
                             /\ chapterMatch(x[2]) # <<>>
                             /\ FilePath(x[1], x[2]) \notin fsFail
                             /\ BookPath(x[1]) \notin fsFail } :
                   LET verses == parseVersesFromMarkdown(
                                     FileContent(bf[1], bf[2]), bf[1],
                                     parseInt(chapterMatch(bf[2])[1]))
                   IN  \A i \in 1..Len(verses) :
                           \A v \in Range(searchIndex) :
                               keyOf(v) = keyOf(verses[i]) =>
                                   /\ v.text = LastWithNumber(verses, i).text
                                   /\ v.fullText = LastWithNumber(verses, i).fullText

\* Mark 1:1 is in the file twice: the store holds the later text, at the
\* place of the first
LastWriteWinsWitness ==
    \E p \in Callers :
        /\ BuildEnded(p)
        /\ ret[p].kind = "ok"
        /\ \E i, j \in 1..Len(searchIndex) :
               /\ i < j
               /\ keyOf(searchIndex[i]) = <<"Mark", 1, 1>>
               /\ searchIndex[i].text = <<"T", "h", "e", " ", "g", "o", "s", "p", "e", "l">>
               /\ keyOf(searchIndex[j]) = <<"Mark", 1, 2>>

\* the whole name is the prefix, digits and the extension
Conforms(file) ==
    LET digits == SubSeq(file, Len(ChapterPrefix) + 1, Len(file) - Len(DotMd))
    IN  /\ digits # <<>>
        /\ \A k \in 1..Len(digits) : IsDigit(digits[k])
        /\ file = ChapterPrefix \o digits \o DotMd

\* C26: only files whose whole name follows the chapter convention give
\* verses to the store; a file with other characters before the prefix gives
\* none.
OnlyChapterFilesContribute ==
    \A v \in Range(searchIndex) :
        \E bf \in CorpusFiles :
            /\ bf[1] = v.book
            /\ Conforms(bf[2])
            /\ v \in Range(parseVersesFromMarkdown(
                             FileContent(bf[1], bf[2]), bf[1],
                             parseInt(chapterMatch(bf[2])[1])))

----------------------------------------------------------------------------
(* parseVersesFromMarkdown over any chapter text, under SpecParse *)

MaxLines == 2

ParseLinePool ==
    { <<"1", ".", " ", "G", "o", "d", " ", "i", "s", " ", "l", "o", "v", "e">>,
      <<"2", " ", "H", "e", " ", "l", "o", "v", "e", "d", " ", "u", "s">>,
      <<"*", "*", "3", "*", "*", " ", "L", "o", "v", "e">>,
      <<"*", "*", "4", " ", "b", "o", "l", "d">>,
      <<"#", " ", "J", "o", "h", "n", " ", "1">>,
      <<>>,
      <<"a", "n", "d", " ", "m", "o", "r", "e">>,
      <<" ", " ", "5", ".", " ", " ", "p", "a", "d", "d", "e", "d", " ", " ">>,
      <<"1", "2">>,
      <<"6", ".">>,
      <<"0", "7", ".", " ", "s", "e", "v", "e", "n">>,
      <<"1", ".", " ", "a", "g", "a", "i", "n">>,
      <<"x", " ", "1", ".", " ", "y">>,
      <<"8", ".", "5", " ", "x">> }

\* the chapter texts of at most MaxLines of these lines
Contents == UNION { [1..n -> ParseLinePool] : n \in 0..MaxLines }

NextParse ==
    \/ \E content \in Contents, chapter \in {1, 3} : Parse(1, content, "John", chapter)
    \/ Return(1)

SpecParse == Init /\ [][NextParse]_vars

\* a line without the white space around it
Trimmed(line) ==
    LET inked == {k \in 1..Len(line) : line[k] # " "}
    IN  IF inked = {} THEN <<>>
        ELSE SubSeq(line, CHOOSE k \in inked : \A j \in inked : k <= j,
                          CHOOSE k \in inked : \A j \in inked : k >= j)

\* the ways to read t as the verse pattern: <<s, d, e, w>> for s characters
\* of bold marker, d digits, e characters of bold marker, one separator and w
\* blanks before a body that is not empty and starts with none
Readings(t) ==
    { r \in {0, 2} \X (1..Len(t)) \X {0, 2} \X (0..Len(t)) :
        LET s == r[1]  d == r[2]  e == r[3]  w == r[4]
            sep == s + d + e + 1
        IN  /\ sep + w + 1 <= Len(t)
            /\ s = 2 => (t[1] = "*" /\ t[2] = "*")
            /\ \A k \in (s + 1)..(s + d) : t[k] \in Range(Digits)
            /\ e = 2 => (t[s + d + 1] = "*" /\ t[s + d + 2] = "*")
            /\ t[sep] \in {".", " "}
            /\ \A k \in (sep + 1)..(sep + w) : t[k] = " "
            /\ t[sep + w + 1] # " " }

\* the decimal value of a run of digits
RECURSIVE Decimal(_)
Decimal(ds) ==
    IF ds = <<>> THEN 0
    ELSE 10 * Decimal(SubSeq(ds, 1, Len(ds) - 1))
         + (CHOOSE n \in 0..9 : Digits[n + 1] = ds[Len(ds)])

\* the verse a line gives, <<>> when it gives none
VerseOfLine(line, book, chapter) ==
    LET t == Trimmed(line)
    IN  IF t = <<>> \/ t[1] = "#" \/ Readings(t) = {} THEN <<>>
        ELSE LET r == CHOOSE x \in Readings(t) : TRUE
             IN  <<[book     |-> book,
                    chapter  |-> chapter,
                    verse    |-> Decimal(SubSeq(t, r[1] + 1, r[1] + r[2])),
                    text     |-> SubSeq(t, r[1] + r[2] + r[3] + r[4] + 2, Len(t)),
                    fullText |-> t]>>

RECURSIVE VersesOfLines(_, _, _)
VersesOfLines(content, book, chapter) ==
    IF content = <<>> THEN <<>>
    ELSE VerseOfLine(Head(content), book, chapter)
             \o VersesOfLines(Tail(content), book, chapter)

\* C23: parseVersesFromMarkdown gives exactly one verse per line that matches
\* the verse pattern (optional bold markers, digits, a period or white space,
\* a body that is not empty), in line order, with verse = the number, text =
\* the body and fullText = the trimmed line; blank lines, lines that start
\* with # and lines that do not match give nothing and are not appended to
\* the verse before.
ParserEmitsMatchingLines ==
    \A p \in Callers :
        (pc[p] = Done /\ call[p].op = "parse") =>
            /\ ret[p].kind = "ok"
            /\ \A k \in 1..Len(call[p].query) :
                   Cardinality(Readings(Trimmed(call[p].query[k]))) <= 1
            /\ ret[p].value =
                   VersesOfLines(call[p].query, call[p].options.book, call[p].options.chapter)

\* a padded line with two blanks after the period, after a line that gives
\* no verse
ParserWitness ==
    \E p \in Callers :
        /\ pc[p] = Done
        /\ call[p].op = "parse"
        /\ Len(call[p].query) = 2
        /\ Len(ret[p].value) = 1
        /\ ret[p].value[1].fullText # call[p].query[2]
        /\ Len(ret[p].value[1].text) + 4 < Len(ret[p].value[1].fullText)

----------------------------------------------------------------------------
(* The highlight strings of search, under SpecHighlight *)

HighlightLinePool ==
    { <<"1", ".", " ", "G", "o", "d", " ", "i", "s", " ", "l", "o", "v", "e">>,
      <<"2", ".", " ", "t", "h", "i", "s", " ", "a", "r", "k">>,
      <<"3", ".", " ", "H", "e", " ", "i", "s", " ", "l", "o", "v", "e", ".">>,
      <<"4", ".", " ", "h", "a", "t", "e", " ", "(", "i", "t">>,
      <<"5", ".", " ", "l", "o", "v", "e", " ", "o", "v", "e", "r", " ", "a", "l", "l">> }

HighlightVersePool ==
    { parseVersesFromMarkdown(<<l>>, "John", 1)[1] : l \in HighlightLinePool }

\* the stores of one or two of these verses
HighlightStores ==
    { <<v>> : v \in HighlightVersePool }
    \cup { s \in HighlightVersePool \X HighlightVersePool : s[1] # s[2] }

HighlightQueries ==
    { <<"i", "s", " ", "l", "o", "v", "e">>,
      <<"i", "s", " ", "a", "r">>,
      <<"e", ".">>,
      <<"(", "i", "t">>,
      <<"l", "o", "v", "e", " ", "o", "v">>,
      <<"L", "o", "v", "e", " ">>,
      <<" ", "i", "s">>,
      <<"L", "O", "V", "E">>,
      <<"i", "s">>,
      <<"a", "r", "k">> }

InitHighlight ==
    /\ fsFail = {}
    /\ items = RootItems
    /\ searchIndex \in HighlightStores
    /\ isIndexed = TRUE
    /\ pc = [p \in Callers |-> Idle]
    /\ call = [p \in Callers |-> NoCall]
    /\ ret = [p \in Callers |-> Ok(NoValue)]
    /\ seen = [p \in Callers |-> <<>>]

NextHighlight ==
    \E q \in HighlightQueries : SearchReady(1, q, DefaultOptions)

SpecHighlight == InitHighlight /\ [][NextHighlight]_vars

\* a search of caller p went through the store, qualifying verses in it
SearchedWithCandidates(p) ==
    /\ pc[p] = Done
    /\ call[p].op = "search"
    /\ seen[p] # <<>>
    /\ Qualifying(StoreSeen(p), call[p]) # {}

\* the words of a query: its pieces between white space, in lower case
WordsOf(query) ==
    SelectSeq(splitWords(toLowerCase(query)), LAMBDA w : w # <<>>)

\* s with every occurrence of word, letter case aside, wrapped in the
\* marker, from left to right; from index i on
RECURSIVE WrapFrom(_, _, _)
WrapFrom(s, word, i) ==
    LET at == {j \in i..(Len(s) - Len(word) + 1) :
                  toLowerCase(SubSeq(s, j, j + Len(word) - 1)) = word}
        m  == CHOOSE j \in at : \A k \in at : j <= k
    IN  IF at = {} THEN SubSeq(s, i, Len(s))
        ELSE SubSeq(s, i, m - 1)
                 \o <<"<", "m", "a", "r", "k", ">">>
                 \o SubSeq(s, m, m + Len(word) - 1)
                 \o <<"<", "/", "m", "a", "r", "k", ">">>
                 \o WrapFrom(s, word, m + Len(word))

\* the words wrapped one after the other, each in the string the words
\* before it left
RECURSIVE WrapWords(_, _)
WrapWords(s, words) ==
    IF words = <<>> THEN s
    ELSE WrapWords(WrapFrom(s, Head(words), 1), Tail(words))

\* C25: highlightText takes the words of the query in their order and wraps,
\* for each, every occurrence of the word (letter case aside) in the string
\* as the words before left it; every marked span is an occurrence of a query
\* word, and markers nest when a later word occurs inside a wrapped span.
HighlightWrapsQueryWords ==
    \A p \in Callers :
        SearchedWithCandidates(p) =>
            /\ ret[p].kind = "ok"
            /\ \A r \in Range(Results(p)) :
                   r.highlight = WrapWords(r.text, WordsOf(call[p].query))

\* C27: white space before and after the query has no effect on search: the
\* padded query returns the same verses in the same order with the same
\* relevance and the same highlight strings as the query without it.
PaddingHasNoEffect ==
    \A p \in Callers :
        (pc[p] = Done /\ call[p].op = "search" /\ seen[p] # <<>>) =>
            ret[p] = searchBody(StoreSeen(p), trim(call[p].query), call[p].options)

\* C28: on a Ready index search raises for no query of trimmed length >= 2,
\* whatever characters it holds: every such call returns a sequence.
NoQueryRaises ==
    \A p \in Callers :
        (pc[p] = Done /\ call[p].op = "search" /\ ~call[p].lazy
            /\ Len(trim(call[p].query)) >= 2)
            => ret[p].kind = "ok"

\* s without the open and close markers in it
RECURSIVE StripMarkers(_)
StripMarkers(s) ==
    LET open  == <<"<", "m", "a", "r", "k", ">">>
        close == <<"<", "/", "m", "a", "r", "k", ">">>
        at    == {j \in 1..Len(s) :
                     \/ SubSeq(s, j, Min(Len(s), j + Len(open) - 1)) = open
                     \/ SubSeq(s, j, Min(Len(s), j + Len(close) - 1)) = close}
        m     == CHOOSE j \in at : \A k \in at : j <= k
        n     == IF s[m + 1] = "/" THEN Len(close) ELSE Len(open)
    IN  IF at = {} THEN s
        ELSE SubSeq(s, 1, m - 1) \o StripMarkers(SubSeq(s, m + n, Len(s)))

\* C29: highlighting only adds markers: the highlight string of every result
\* without its open and close markers is the verse text, for every query.
HighlightOnlyAddsMarkers ==
    \A p \in Callers :
        SearchedWithCandidates(p) =>
            /\ ret[p].kind = "ok"
            /\ \A r \in Range(Results(p)) : StripMarkers(r.highlight) = r.text

----------------------------------------------------------------------------
(* Overlapping builds of an unchanged corpus, under Spec *)

\* no build is in flight
Quiescent == \A p \in Callers : ~InFlight(p)

\* C30: for an unchanged corpus, in every interleaving of builds started
\* side by side (explicit, or lazy from search or getSearchSuggestions), once
\* no build is in flight any more the index is Ready and the store is the
\* parse of the whole corpus, no verse missing.
BuildsQuiesceComplete ==
    Quiescent =>
        /\ isIndexed => Mapping(searchIndex) = MappingOf(CorpusVerses(fsFail))
        /\ (RootPath \notin fsFail /\ \E p \in Callers : BuildEnded(p)) => isIndexed

\* two builds that ran side by side have both ended: the store is in an
\* order that no build on its own leaves, and holds every verse
BuildsQuiesceWitness ==
    /\ Quiescent
    /\ isIndexed
    /\ \A p \in Callers : BuildEnded(p) /\ ret[p].kind = "ok"
    /\ searchIndex # FullStore
    /\ Mapping(searchIndex) = MappingOf(CorpusVerses(fsFail))
    /\ Len(searchIndex) = Cardinality(CorpusVerses({}))

====
